---- MODULE Spec2Model ----
(***************************************************************************)
(* Model of the concurrent steps of go-command-pipeline: NewFanOutStep,    *)
(* NewWorkerPoolStep, SupplierFromSlice, the result collection and the     *)
(* sequential runner (Pipeline.RunWithContext) the sub-pipelines use.      *)
(*                                                                         *)
(* One behaviour is one construction and one invocation of a concurrent    *)
(* step.  Every goroutine is a process with a program counter; an action   *)
(* is one atomic step of one goroutine (a channel operation, an atomic     *)
(* add, a sync.Map store, a WaitGroup operation, a select on ctx.Done()).  *)
(* What the caller supplies and the step only reads late (the steps of a   *)
(* sub-pipeline, what a step returns, the result handler) is drawn at the  *)
(* moment the code first reads it.                                         *)
(*                                                                         *)
(* The fan-out step returns through setResultErrorFromContext(ctx, res) of *)
(* resulthandler.go; the pool step calls the variant that takes the step's *)
(* name and the handler's error.                                           *)
(***************************************************************************)
EXTENDS Naturals, Integers, Sequences, FiniteSets, Bags, TLC

\* ---------------------------------------------------------------- bounds
MaxPipes == 2      \* longest slice given to SupplierFromSlice
MaxSize  == 2      \* largest pool size
MaxSteps == 1      \* most steps in one sub-pipeline
MaxSeqSteps == 2   \* most steps of the pipeline that is run on its own
MaxHooks == 2      \* most before-hooks of that pipeline
MaxRecords == 3    \* most calls of DependencyRecorder.Record
MaxRequested == 2  \* most names given to RequireDependencyByStepName
MaxNames == 3      \* the steps that are recorded and asked for

\* ---------------------------------------------------------------- errors
\* An error value is its message and the set of sentinel errors that
\* errors.Is finds in its chain.  Nil is the nil error.
Nil == [msg |-> "<nil>", is |-> {}]
Canceled == [msg |-> "context canceled", is |-> {"Canceled"}]
DeadlineExceeded == [msg |-> "context deadline exceeded", is |-> {"DeadlineExceeded"}]
ErrAbort == [msg |-> "abort", is |-> {"ErrAbort"}]
ErrStep == [msg |-> "should fail", is |-> {"ErrStep"}]
ErrCollect == [msg |-> "some error", is |-> {"ErrCollect"}]

\* fmt.Errorf("step %q failed: %w", name, err)
WrapStepFailed(name, err) ==
    [msg |-> "step \"" \o name \o "\" failed: " \o err.msg, is |-> err.is]

\* fmt.Errorf("%w, collection error: %v", ctxErr, err): only ctxErr is wrapped
WrapCollection(cerr, err) ==
    [msg |-> cerr.msg \o ", collection error: " \o err.msg, is |-> cerr.is]

\* --------------------------------------------------------------- results
NewResult(stepName, err, aborted, canceled) ==
    [name |-> stepName, err |-> err, aborted |-> aborted, canceled |-> canceled]

NewEmptyResult(stepName) == NewResult(stepName, Nil, FALSE, FALSE)

NewResultWithError(stepName, err) == NewResult(stepName, err, FALSE, FALSE)

EmptyResult == NewEmptyResult("")

IsFailed(r) == r.err # Nil

\* ------------------------------------------------------------- pipelines
\* The slice of sub-pipelines is given by its length.  What a sub-pipeline is
\* shows when it is run: the number of its steps is drawn when RunWithContext
\* is entered, and what a step's action returns when the step is run: "ok"
\* returns a nil error, "fail" returns ErrStep.  Step k is named StepName(k).
StepKinds == {"ok", "fail"}

StepName(k) == IF k = 1 THEN "s1" ELSE IF k = 2 THEN "s2" ELSE "s3"

PipelineShapes == 0..MaxSteps

\* Pipeline.fail with error wrapping enabled (the default)
fail(err, stepName) ==
    NewResult(stepName, WrapStepFailed(stepName, err), FALSE,
              ("Canceled" \in err.is) \/ ("DeadlineExceeded" \in err.is))

\* the Result a step's ActionFunc returns
StepResult(kind, stepName) ==
    IF kind = "fail" THEN NewResultWithError(stepName, ErrStep)
    ELSE NewEmptyResult(stepName)

\* ------------------------------------------------------ result handlers
\* "nil"    no handler
\* "ignore" returns an empty Result whatever the map holds
\* "first"  returns the failed Result with the lowest key, else an empty one
\* "always" returns NewResultWithError("fanout", ErrCollect)
HandlerKinds == {"nil", "ignore", "first", "always"}

Min(S) == CHOOSE x \in S : \A y \in S : x <= y

CallHandler(kind, resultMap) ==
    CASE kind = "ignore" -> EmptyResult
      [] kind = "always" -> NewResultWithError("fanout", ErrCollect)
      [] OTHER ->
           LET failed == {k \in DOMAIN resultMap : IsFailed(resultMap[k])}
           IN  IF failed = {} THEN EmptyResult ELSE resultMap[Min(failed)]

\* variant: without a handler the first failed Result is returned
collectResultsFirstFailure(h, table) ==
    IF h # "nil" THEN CallHandler(h, table) ELSE CallHandler("first", table)

\* collectResults: the handler, when there is one, gets a copy of the table
collectResults(h, table) ==
    IF h # "nil" THEN CallHandler(h, table) ELSE EmptyResult

\* variant: the handler is not called when the table is empty
HandlerCallsUnlessEmpty(h, table) ==
    IF h # "nil" /\ DOMAIN table # {} THEN <<table>> ELSE <<>>

\* collectResults: the calls of the handler, as the sequence of the maps it
\* is called with
HandlerCalls(h, table) == IF h # "nil" THEN <<table>> ELSE <<>>

\* the conventional map collectResults builds from the sync.Map
RangeToMap(table) == [k \in DOMAIN table |-> table[k]]

\* variant: without cancellation only the name of the Result is kept
setResultErrorFromContextDropsError(cerr, result) ==
    IF cerr # Nil
    THEN IF result.err # Nil
         THEN NewResult(result.name, WrapCollection(cerr, result.err), result.aborted, TRUE)
         ELSE NewResult(result.name, cerr, result.aborted, TRUE)
    ELSE NewEmptyResult(result.name)

\* variant: the collection error replaces the context's error
setResultErrorFromContextReplaces(cerr, result) ==
    IF cerr # Nil
    THEN IF result.err # Nil
         THEN NewResult(result.name, result.err, result.aborted, TRUE)
         ELSE NewResult(result.name, cerr, result.aborted, TRUE)
    ELSE result

\* variant: a canceled context is reported only together with a collection error
setResultErrorFromContextOnlyWithError(cerr, result) ==
    IF cerr # Nil /\ result.err # Nil
    THEN NewResult(result.name, WrapCollection(cerr, result.err), result.aborted, TRUE)
    ELSE result

\* setResultErrorFromContext
setResultErrorFromContext(cerr, result) ==
    IF cerr # Nil
    THEN IF result.err # Nil
         THEN NewResult(result.name, WrapCollection(cerr, result.err), result.aborted, TRUE)
         ELSE NewResult(result.name, cerr, result.aborted, TRUE)
    ELSE result

\* setResultErrorFromContext of the pool step, which passes the step's name
\* and the error the handler returned
setResultErrorFromContextNamed(cerr, name, err) ==
    IF cerr # Nil
    THEN IF err # Nil
         THEN NewResult(name, WrapCollection(cerr, err), FALSE, TRUE)
         ELSE NewResult(name, cerr, FALSE, TRUE)
    ELSE NewResultWithError(name, err)

\* ----------------------------------------------------------------- state
VARIABLES
    mode,        \* "fanout" or "pool"
    size,        \* pool size argument (unused by fan-out)
    pipelines,   \* len(pipelines) of the slice given to SupplierFromSlice
    handler,     \* the ParallelResultHandler argument: "unread" until
                 \* collectResults reads it, then one of HandlerKinds
    ctxErr,      \* ctx.Err()
    pc,          \* the goroutine that constructs and runs the step
    spawned,     \* loop variable i of NewWorkerPoolStep
    sup,         \* the supplier goroutine: [pc, idx]
    chan,        \* pipelineChan's buffer (slice positions)
    closed,      \* pipelineChan is closed
    wg,          \* the WaitGroup counter
    count,       \* the index counter (count in the pool, i in fan-out)
    tasks,       \* the worker / task goroutines: a bag of their states
                 \* (goroutines have no identity), see Goroutine
    m,           \* the result table (sync.Map)
    written,     \* history: slice positions sent to the channel, in order
    dequeued,    \* history: slice positions received from the channel, in order
    stores,      \* history: the m.Store calls as pairs <<key, slice position>>
    nstores,     \* history: the number of m.Store calls
    ran,         \* history: the pairs <<slice position, Result>> of the
                 \* RunWithContext calls that have returned
    handlerArg,  \* history: the maps the handler was called with
    collected,   \* the Result collectResults returned
    outcome,     \* the Result the step returned
    parent,      \* the Result of the enclosing pipeline's doRun
    closes,      \* the supplier closes the channel when it returns (as
                 \* SupplierFromSlice does); FALSE is a supplier that does not
    track,       \* history is kept of the moment the context is canceled
    atCancel,    \* history, when track, of the moment the context was
                 \* canceled: deq sub-pipelines had been dequeued, due were
                 \* buffered in the channel or being written to it
    \* a Pipeline run on its own by RunWithContext
    pSteps,      \* len(p.steps)
    pHooks,      \* len(p.beforeHooks); the first hook is DependencyRecorder.Record
    pNoWrap,     \* p.options.disableErrorWrapping
    pFinalizer,  \* p.finalizer: one of FinalizerKinds
    spc,         \* where RunWithContext is
    spos,        \* position in p.steps of the loop variable step
    shandler,    \* step.H of the loop variable: one of StepHandlerKinds
    shook,       \* position in p.beforeHooks of the next hook to call
    sresult,     \* result: what step.F returned
    sres,        \* what doRun returned
    sout,        \* what RunWithContext returned
    invoked,     \* history: positions of the steps whose F was called
    hookCalls,   \* history: the hook calls as pairs <<hook, step>>
    Records,     \* DependencyRecorder.Records, as positions of steps
    handled,     \* history: the calls of step handlers
    stepErrs,    \* history: the resulting error of each step that was executed
    finCalls,    \* history: the calls of the finalizer
    \* a DependencyRecorder used on its own
    depCall,     \* the last call of RequireDependencyByStepName: the Records
                 \* it saw, its arguments and what it returned
    \* two invocations of the action of one concurrent Step
    heap,        \* the objects made so far, an object's address is its position
    frames       \* for each invocation the locals of step.F and its goroutines

vars == <<mode, size, pipelines, handler, ctxErr, pc, spawned, sup, chan, closed,
          wg, count, tasks, m, written, dequeued, stores, nstores, ran, handlerArg,
          collected, outcome, parent, closes, track, atCancel,
          pSteps, pHooks, pNoWrap, pFinalizer, stepErrs, spc, spos, shandler, shook, sresult, sres, sout,
          invoked, hookCalls, Records, handled, finCalls, depCall,
          heap, frames>>

\* the state of the pipeline that is run on its own
seqVars == <<pSteps, pHooks, pNoWrap, pFinalizer, stepErrs, spc, spos, shandler, shook, sresult, sres, sout,
             invoked, hookCalls, Records, handled, finCalls>>

\* the state of the concurrent step, but for the context
stepVars == <<mode, size, pipelines, handler, pc, spawned, sup, chan, closed,
              wg, count, tasks, m, written, dequeued, stores, nstores, ran, handlerArg,
              collected, outcome, parent, closes, track, atCancel>>

\* the state of the calls of the DependencyResolver
depVars == <<depCall>>

\* the state of the invocations of one Step
invVars == <<heap, frames>>

config == <<mode, size, pipelines, handler, closes, track>>
hist == <<written, dequeued, stores, nstores>>
results == <<collected, outcome, parent>>

EmptyMap == [k \in {} |-> EmptyResult]

StepFName == "parallel"

NoCancel == [deq |-> 0, due |-> 0]

\* the invocations of the action of one Step
Invocations == {1, 2}

\* step.F has not been called
NoFrame ==
    [pc |-> "idle", chan |-> 0, m |-> 0, wg |-> 0, count |-> 0,
     sup |-> [pc |-> "idle", idx |-> 1], ranged |-> FALSE, workers |-> 0,
     pending |-> {}, out |-> <<>>]

\* RequireDependencyByStepName has not been called
NoCall == [records |-> <<>>, names |-> <<>>, err |-> Nil, called |-> FALSE]

\* RunWithContext has not been called; shapes is the set of values of
\* <<len(p.steps), len(p.beforeHooks), disableErrorWrapping, finalizer>>
InitPipeline(shapes) ==
    /\ \E sh \in shapes :
          pSteps = sh[1] /\ pHooks = sh[2] /\ pNoWrap = sh[3] /\ pFinalizer = sh[4]
    /\ spc = "idle"
    /\ spos = 0
    /\ shandler = "none"
    /\ shook = 0
    /\ sresult = EmptyResult
    /\ sres = EmptyResult
    /\ sout = EmptyResult
    /\ invoked = <<>>
    /\ hookCalls = <<>>
    /\ Records = <<>>
    /\ handled = <<>>
    /\ stepErrs = <<>>
    /\ finCalls = <<>>
    /\ depCall = NoCall

\* The state after the arguments of the constructor are chosen.  closing is
\* the set of values of closes, tracking the set of values of track.
InitStep(closing, tracking) ==
    /\ closes \in closing
    /\ track \in tracking
    /\ atCancel = NoCancel
    /\ mode \in {"fanout", "pool"}
    \* sizes below 1, 0 and -1, are tried too
    /\ size \in IF mode = "pool" THEN -1..MaxSize ELSE {0}
    /\ pipelines \in 0..MaxPipes
    /\ handler = "unread"
    /\ ctxErr = Nil
    /\ pc = "new"
    /\ spawned = 0
    /\ sup = [pc |-> "idle", idx |-> 1]
    /\ chan = <<>>
    /\ closed = FALSE
    /\ wg = 0
    /\ count = 0
    /\ tasks = EmptyBag
    /\ m = EmptyMap
    /\ written = <<>>
    /\ dequeued = <<>>
    /\ stores = {}
    /\ nstores = 0
    /\ ran = {}
    /\ handlerArg = <<>>
    /\ collected = EmptyResult
    /\ outcome = EmptyResult
    /\ parent = EmptyResult
    /\ heap = <<>>
    /\ frames = [inv \in Invocations |-> NoFrame]

\* a concurrent step is constructed and invoked; no pipeline is run on its
\* own
InitWith(closing, tracking) ==
    /\ InitPipeline({<<0, 0, FALSE, "none">>})
    /\ InitStep(closing, tracking)

\* SupplierFromSlice is the supplier
Init == InitWith({TRUE}, {FALSE})

\* ------------------------------------------------------------- context
\* The parent cancels the context or its deadline passes, at any moment
\* before the step has returned.
Cancel ==
    /\ ctxErr = Nil
    /\ pc \notin {"returned", "reported", "panicked"}
    /\ ctxErr' \in {Canceled, DeadlineExceeded}
    /\ atCancel' = IF track
                   THEN [deq |-> Len(dequeued),
                         due |-> Len(chan) + IF sup.pc = "send" THEN 1 ELSE 0]
                   ELSE atCancel
    /\ UNCHANGED <<invVars, depVars, seqVars, config, pc, spawned, sup, chan, closed, wg, count, tasks, m,
                   hist, ran, handlerArg, results>>

\* --------------------------------------------------------- construction
\* variant: only a negative size is rejected
SizeNegative(n) == n < 0

\* NewWorkerPoolStep's size check
SizeTooLow(n) == n < 1

\* NewFanOutStep / NewWorkerPoolStep: build the Step, or panic
Construct ==
    /\ pc = "new"
    /\ pc' = IF mode = "pool" /\ SizeTooLow(size) THEN "panicked" ELSE "constructed"
    /\ UNCHANGED <<invVars, depVars, seqVars, config, atCancel, ran, ctxErr, spawned, sup, chan, closed, wg, count, tasks, m,
                   hist, handlerArg, results>>

\* step.F is called: make the channel, the table, the wait group and the
\* counter, and start the supplier goroutine
Invoke ==
    /\ pc = "constructed"
    /\ chan' = <<>>
    /\ closed' = FALSE
    /\ m' = EmptyMap
    /\ wg' = 0
    /\ count' = 0
    /\ sup' = [pc |-> "loop", idx |-> 1]
    /\ pc' = IF mode = "pool" THEN "spawn" ELSE "range"
    /\ UNCHANGED <<invVars, depVars, seqVars, config, atCancel, ran, ctxErr, spawned, tasks, hist, handlerArg, results>>

\* -------------------------------------------------------------- supplier
\* variant: the channel of the pool has room for one more
CapacityOneMore == IF mode = "pool" THEN size + 1 ELSE 0

\* capacity of pipelineChan: make(chan *Pipeline, size) / make(chan *Pipeline)
Capacity == IF mode = "pool" THEN size ELSE 0

\* variant: the supplier does not look at the context
SupplierStopsAtEnd(idx, n, cerr) == idx > n

\* SupplierFromSlice returns when the range over the slice is over or the
\* select finds ctx.Done() closed
SupplierStops(idx, n, cerr) == idx > n \/ cerr # Nil

\* variant: close(pipelinesChan) follows the loop instead of being deferred
CloseAfterLoop(idx, n) == IF idx > n THEN "close" ELSE "done"

\* defer close(pipelinesChan): what the supplier does when it returns
OnReturn(idx, n) == "close"

\* SupplierFromSlice: the range over the slice and the select on ctx.Done()
SupplierSelect ==
    /\ sup.pc = "loop"
    /\ sup' = IF SupplierStops(sup.idx, pipelines, ctxErr)
              THEN [sup EXCEPT !.pc = OnReturn(sup.idx, pipelines)]
              ELSE [sup EXCEPT !.pc = "send"]
    /\ UNCHANGED <<invVars, depVars, seqVars, config, atCancel, ran, ctxErr, pc, spawned, chan, closed, wg, count, tasks, m,
                   hist, handlerArg, results>>

\* pipelinesChan <- pipe on the buffered channel of the pool
SupplierSend ==
    /\ sup.pc = "send"
    /\ Len(chan) < Capacity
    /\ chan' = Append(chan, sup.idx)
    /\ written' = Append(written, sup.idx)
    /\ sup' = [pc |-> "loop", idx |-> sup.idx + 1]
    /\ UNCHANGED <<invVars, depVars, seqVars, config, atCancel, ran, ctxErr, pc, spawned, closed, wg, count, tasks, m,
                   dequeued, stores, nstores, handlerArg, results>>

\* the deferred close(pipelinesChan); a supplier that does not close the
\* channel just returns
SupplierClose ==
    /\ sup.pc = "close"
    /\ closed' = closes
    /\ sup' = [sup EXCEPT !.pc = "done"]
    /\ UNCHANGED <<invVars, depVars, seqVars, config, atCancel, ran, ctxErr, pc, spawned, chan, wg, count, tasks, m,
                   hist, handlerArg, results>>

\* ------------------------------------------------- running a sub-pipeline
\* The state of a goroutine: where it is (pc), the slice position of the
\* pipeline it holds (pipe), its index (n), the steps it has still to start
\* (todo), the step it is at (pos) and the Result of RunWithContext (res).
\* Locals that are dead hold their zero value.
Goroutine(pcv, p, n, todo, k, r) ==
    [pc |-> pcv, pipe |-> p, n |-> n, todo |-> todo, pos |-> k, res |-> r]

Idle(pcv) == Goroutine(pcv, 0, 0, 0, 0, EmptyResult)

\* the bag of goroutines after the one in state t moved to state u
Move(t, u) == (tasks (-) SetToBag({t})) (+) SetToBag({u})

\* Pipeline.doRun entered with the steps of slice position p: the state of
\* the goroutine before the first iteration of the loop over p.steps
BeginRun(p, n, steps) ==
    IF steps = 0
    THEN Goroutine("store", p, n, 0, 0, NewEmptyResult(""))
    ELSE Goroutine("select", p, n, steps - 1, 1, EmptyResult)

\* Pipeline.doRun after the step named name has returned result r (no step
\* handler): whether doRun returns here, and the Result it returns if this
\* was the last step
doRunStep(r, name) ==
    IF r.err # Nil
    THEN IF "ErrAbort" \in r.err.is
         THEN [return |-> TRUE, res |-> NewResult(name, Nil, TRUE, FALSE)]
         ELSE [return |-> TRUE, res |-> fail(r.err, name)]
    ELSE [return |-> FALSE, res |-> NewEmptyResult(name)]

\* the goroutine running slice position t.pipe after its step t.pos returned r
AfterStep(t, r) ==
    LET d == doRunStep(r, StepName(t.pos))
    IN  IF d.return \/ t.todo = 0
        THEN Goroutine("store", t.pipe, t.n, 0, 0, d.res)
        ELSE Goroutine("select", t.pipe, t.n, t.todo - 1, t.pos + 1, EmptyResult)

\* what RunWithContext has returned when the goroutine is in state u: the
\* pair of its slice position and its Result once it has returned
Returned(u) == IF u.pc = "store" THEN {<<u.pipe, u.res>>} ELSE {}

\* variant: only context.Canceled counts as a canceled context
ctxDoneIfCanceled(cerr) == "Canceled" \in cerr.is

\* case <-ctx.Done() of the select in doRun
ctxDone(cerr) == cerr # Nil

\* Pipeline.doRun: the select on ctx.Done() before a step
TaskSelect(t) ==
    /\ t.pc = "select"
    /\ LET u == IF ctxDone(ctxErr)
                THEN Goroutine("store", t.pipe, t.n, 0, 0, fail(ctxErr, StepName(t.pos)))
                ELSE [t EXCEPT !.pc = "exec"]
       IN  /\ tasks' = Move(t, u)
           /\ ran' = ran \cup Returned(u)
    /\ UNCHANGED <<invVars, depVars, seqVars, config, atCancel, ctxErr, pc, spawned, sup, chan, closed, wg, count, m,
                   hist, handlerArg, results>>

\* Pipeline.doRun: step.F(ctx) returns and its error is examined
TaskExec(t) ==
    /\ t.pc = "exec"
    /\ \E kind \in StepKinds :
         LET u == AfterStep(t, StepResult(kind, StepName(t.pos)))
         IN  /\ tasks' = Move(t, u)
             /\ ran' = ran \cup Returned(u)
    /\ UNCHANGED <<invVars, depVars, seqVars, config, atCancel, ctxErr, pc, spawned, sup, chan, closed, wg, count, m,
                   hist, handlerArg, results>>

\* variant: only the name of the Result is stored
StoreNameOnly(table, key, value) ==
    [k \in DOMAIN table \cup {key} |-> IF k = key THEN NewEmptyResult(value.name)
                                       ELSE table[k]]

\* sync.Map.Store
Store(table, key, value) ==
    [k \in DOMAIN table \cup {key} |-> IF k = key THEN value ELSE table[k]]

\* m.Store(n, pipe.RunWithContext(ctx)) once RunWithContext has returned
TaskStore(t) ==
    /\ t.pc = "store"
    /\ m' = Store(m, t.n, t.res)
    /\ stores' = stores \cup {<<t.n, t.pipe>>}
    /\ nstores' = nstores + 1
    /\ tasks' = Move(t, Idle(IF mode = "pool" THEN "recv" ELSE "done"))
    /\ UNCHANGED <<invVars, depVars, seqVars, config, atCancel, ran, ctxErr, pc, spawned, sup, chan, closed, wg, count,
                   written, dequeued, handlerArg, results>>

\* variant: the loop over the channel ends when nothing is buffered
RangeEndsWhenEmpty(isClosed, buffered) == buffered = 0

\* for pipe := range pipelineChan ends when the channel is closed and drained
RangeEnds(isClosed, buffered) == isClosed /\ buffered = 0

\* variant: i++ comes before n := i
IndexAfterIncrement(i) == i + 1

\* variant: the index is the number of results stored so far
IndexOfNextStore(i) == nstores

\* n := i in the loop of NewFanOutStep
FanOutIndex(i) == i

\* ---------------------------------------------------------------- fan-out
\* for pipe := range pipelineChan { p := pipe; wg.Add(1); n := i; i++; go ... }
\* The channel is unbuffered: the supplier's send and this receive meet.
FanOutReceive ==
    /\ pc = "range"
    /\ sup.pc = "send"
    /\ written' = Append(written, sup.idx)
    /\ dequeued' = Append(dequeued, sup.idx)
    /\ sup' = [pc |-> "loop", idx |-> sup.idx + 1]
    /\ wg' = wg + 1
    /\ count' = count + 1
    /\ \E steps \in PipelineShapes :
         LET u == BeginRun(sup.idx, FanOutIndex(count), steps)
         IN  /\ tasks' = tasks (+) SetToBag({u})
             /\ ran' = ran \cup Returned(u)
    /\ UNCHANGED <<invVars, depVars, seqVars, config, atCancel, ctxErr, pc, spawned, chan, closed, m, stores, nstores,
                   handlerArg, results>>

\* the range loop ends when the channel is closed
FanOutRangeEnd ==
    /\ pc = "range"
    /\ RangeEnds(closed, IF sup.pc = "send" THEN 1 ELSE 0)
    /\ pc' = "wait"
    /\ UNCHANGED <<invVars, depVars, seqVars, config, atCancel, ran, ctxErr, spawned, sup, chan, closed, wg, count, tasks, m,
                   hist, handlerArg, results>>

\* the deferred wg.Done() of a fan-out goroutine
TaskDone(t) ==
    /\ t.pc = "done"
    /\ wg' = wg - 1
    /\ tasks' = Move(t, Idle("exited"))
    /\ UNCHANGED <<invVars, depVars, seqVars, config, atCancel, ran, ctxErr, pc, spawned, sup, chan, closed, count, m,
                   hist, handlerArg, results>>

\* ------------------------------------------------------------------- pool
\* variant: the loop runs once more (i <= size)
SpawnMoreInclusive(i, n) == i <= n

\* for i := 0; i < size; i++
SpawnMore(i, n) == i < n

\* wg.Add(1); go poolWork(...)
PoolSpawn ==
    /\ pc = "spawn"
    /\ SpawnMore(spawned, size)
    /\ wg' = wg + 1
    /\ tasks' = tasks (+) SetToBag({Idle("recv")})
    /\ spawned' = spawned + 1
    /\ UNCHANGED <<invVars, depVars, seqVars, config, atCancel, ran, ctxErr, pc, sup, chan, closed, count, m,
                   hist, handlerArg, results>>

PoolSpawnEnd ==
    /\ pc = "spawn"
    /\ ~SpawnMore(spawned, size)
    /\ pc' = "wait"
    /\ UNCHANGED <<invVars, depVars, seqVars, config, atCancel, ran, ctxErr, spawned, sup, chan, closed, wg, count, tasks, m,
                   hist, handlerArg, results>>

\* poolWork: for pipe := range pipelineChan, an element is received
WorkerReceive(t) ==
    /\ mode = "pool"
    /\ t.pc = "recv"
    /\ Len(chan) > 0
    /\ chan' = Tail(chan)
    /\ dequeued' = Append(dequeued, Head(chan))
    /\ tasks' = Move(t, Goroutine("claim", Head(chan), 0, 0, 0, EmptyResult))
    /\ UNCHANGED <<invVars, depVars, seqVars, config, atCancel, ran, ctxErr, pc, spawned, sup, closed, wg, count, m,
                   written, stores, nstores, handlerArg, results>>

\* variant: the counter advances by two
AtomicAddTwo(c) == c + 2

\* variant: the counter is read without being advanced
AtomicAddZero(c) == c

\* atomic.AddUint64(i, 1): the new value of the counter
AtomicAddUint64(c) == c + 1

\* poolWork: n := atomic.AddUint64(i, 1) - 1, then RunWithContext starts
WorkerClaim(t) ==
    /\ t.pc = "claim"
    /\ count' = AtomicAddUint64(count)
    /\ \E steps \in PipelineShapes :
         LET u == BeginRun(t.pipe, AtomicAddUint64(count) - 1, steps)
         IN  /\ tasks' = Move(t, u)
             /\ ran' = ran \cup Returned(u)
    /\ UNCHANGED <<invVars, depVars, seqVars, config, atCancel, ctxErr, pc, spawned, sup, chan, closed, wg, m,
                   hist, handlerArg, results>>

\* poolWork: the range ends on the closed and drained channel; defer wg.Done()
WorkerExit(t) ==
    /\ mode = "pool"
    /\ t.pc = "recv"
    /\ RangeEnds(closed, Len(chan))
    /\ wg' = wg - 1
    /\ tasks' = Move(t, Idle("exited"))
    /\ UNCHANGED <<invVars, depVars, seqVars, config, atCancel, ran, ctxErr, pc, spawned, sup, chan, closed, count, m,
                   hist, handlerArg, results>>

\* ------------------------------------------------- wait, collect, return
\* variant: Wait returns while one goroutine is still counted
WaitReturnsEarly(c) == c <= 1

\* wg.Wait() returns when the counter is zero
WaitReturns(c) == c = 0

Wait ==
    /\ pc = "wait"
    /\ WaitReturns(wg)
    /\ pc' = "collect"
    /\ UNCHANGED <<invVars, depVars, seqVars, config, atCancel, ran, ctxErr, spawned, sup, chan, closed, wg, count, tasks, m,
                   hist, handlerArg, results>>

\* res := collectResults(ctx, handler, &m)
Collect ==
    /\ pc = "collect"
    /\ handler' \in HandlerKinds
    /\ collected' = collectResults(handler', RangeToMap(m))
    /\ handlerArg' = handlerArg \o HandlerCalls(handler', RangeToMap(m))
    /\ pc' = "collected"
    /\ UNCHANGED <<invVars, depVars, seqVars, mode, size, pipelines, closes, track, atCancel, ran, ctxErr, spawned, sup,
                   chan, closed, wg, count, tasks, m, hist, outcome, parent>>

\* return setResultErrorFromContext(...)
Return ==
    /\ pc = "collected"
    /\ outcome' = IF mode = "pool"
                  THEN setResultErrorFromContextNamed(ctxErr, StepFName, collected.err)
                  ELSE setResultErrorFromContext(ctxErr, collected)
    /\ pc' = "returned"
    /\ UNCHANGED <<invVars, depVars, seqVars, config, atCancel, ran, ctxErr, spawned, sup, chan, closed, wg, count, tasks, m,
                   hist, handlerArg, collected, parent>>

\* The enclosing pipeline's doRun gets the Result of step.F(ctx) for its only
\* step, the concurrent step, and returns
ParentDoRun ==
    /\ pc = "returned"
    /\ parent' = doRunStep(outcome, StepFName).res
    /\ pc' = "reported"
    /\ UNCHANGED <<invVars, depVars, seqVars, config, atCancel, ran, ctxErr, spawned, sup, chan, closed, wg, count, tasks, m,
                   hist, handlerArg, collected, outcome>>

\* ------------------------------------------- a pipeline run on its own
\* RunWithContext of a Pipeline with pSteps steps named StepName(1),
\* StepName(2), ..., pHooks before-hooks and perhaps a finalizer.  What a
\* step's F returns and whether the step has a handler H is drawn when the
\* code gets at it.
ErrHandler == [msg |-> "handler", is |-> {"ErrHandler"}]
ErrFinal == [msg |-> "finalizer", is |-> {"ErrFinal"}]

\* fmt.Errorf("stop: %w", ErrAbort)
ErrAbortWrapped == [msg |-> "stop: abort", is |-> {"ErrAbort"}]

\* what a step's F returns: no error, ErrStep, ErrAbort, or an error that
\* wraps ErrAbort
ActionKinds == {"ok", "fail", "abort", "wrapabort"}

ActionResult(kind, stepName) ==
    CASE kind = "abort" -> NewResultWithError(stepName, ErrAbort)
      [] kind = "wrapabort" -> NewResultWithError(stepName, ErrAbortWrapped)
      [] OTHER -> StepResult(kind, stepName)

\* "none" no handler; "keep" returns result.Err(); "nil" returns nil;
\* "raise" returns ErrHandler; "abort" returns ErrAbort
StepHandlerKinds == {"none", "keep", "nil", "raise", "abort"}

\* step.H(ctx, result)
CallStepHandler(h, result) ==
    CASE h = "keep" -> result.err
      [] h = "nil" -> Nil
      [] h = "raise" -> ErrHandler
      [] OTHER -> ErrAbort

\* "none" no finalizer; "keep" returns result.Err(); "nil" returns nil;
\* "raise" returns ErrFinal
FinalizerKinds == {"none", "keep", "nil", "raise"}

\* p.finalizer(ctx, result)
CallFinalizer(f, result) ==
    CASE f = "keep" -> result.err
      [] f = "nil" -> Nil
      [] OTHER -> ErrFinal

\* the pipelines that are run on their own
PipelineConfigs ==
    (0..MaxSeqSteps) \X (0..MaxHooks) \X BOOLEAN \X FinalizerKinds

\* variant: the handler is called only when F returned an error
HandlerIsCalledOnError(h, result) == h # "none" /\ result.err # Nil

\* if step.H != nil
HandlerIsCalled(h, result) == h # "none"

\* err after F has returned result: the handler's return value when there
\* is a handler, result.Err() when there is none
ResultingError(h, result) ==
    IF HandlerIsCalled(h, result) THEN CallStepHandler(h, result) ELSE result.err

\* Pipeline.fail
PipelineFail(nowrap, err, stepName) ==
    NewResult(stepName, IF nowrap THEN err ELSE WrapStepFailed(stepName, err), FALSE,
              ("Canceled" \in err.is) \/ ("DeadlineExceeded" \in err.is))

\* variant: an error does not end the loop over the steps
stepOutcomeGoesOn(nowrap, err, stepName) ==
    IF err # Nil /\ "ErrAbort" \in err.is
    THEN [return |-> TRUE, res |-> NewResult(stepName, Nil, TRUE, FALSE)]
    ELSE [return |-> FALSE, res |-> NewEmptyResult(stepName)]

\* variant: err == ErrAbort instead of errors.Is(err, ErrAbort)
stepOutcomeAbortByEquality(nowrap, err, stepName) ==
    IF err # Nil
    THEN IF err = ErrAbort
         THEN [return |-> TRUE, res |-> NewResult(stepName, Nil, TRUE, FALSE)]
         ELSE [return |-> TRUE, res |-> PipelineFail(nowrap, err, stepName)]
    ELSE [return |-> FALSE, res |-> NewEmptyResult(stepName)]

\* doRun once err is known: whether it returns, and with which Result
stepOutcome(nowrap, err, stepName) ==
    IF err # Nil
    THEN IF "ErrAbort" \in err.is
         THEN [return |-> TRUE, res |-> NewResult(stepName, Nil, TRUE, FALSE)]
         ELSE [return |-> TRUE, res |-> PipelineFail(nowrap, err, stepName)]
    ELSE [return |-> FALSE, res |-> NewEmptyResult(stepName)]

\* variant: the context is looked at once more after the last step
afterLoopChecksContext(nowrap, cerr, name) ==
    IF cerr # Nil THEN PipelineFail(nowrap, cerr, name) ELSE NewEmptyResult(name)

\* doRun after the loop over p.steps: return Result{name: name}
afterLoop(nowrap, cerr, name) == NewEmptyResult(name)

\* variant: the hooks are called from the last to the first
LastHookFirst(k, n) == n + 1 - k

\* for _, hooks := range p.beforeHooks: the hook of the k-th iteration
NextHook(k, n) == k

\* variant: the finalizer is not called for a canceled or aborted pipeline
FinalizedIfCompleted(f, result) ==
    IF f # "none" /\ ~result.canceled /\ ~result.aborted
    THEN [calls |-> <<[arg |-> result, ret |-> CallFinalizer(f, result)]>>,
          out |-> [result EXCEPT !.err = CallFinalizer(f, result)]]
    ELSE [calls |-> <<>>, out |-> result]

\* RunWithContext after doRun returned result: the calls of the finalizer
\* and the Result returned
Finalized(f, result) ==
    IF f # "none"
    THEN [calls |-> <<[arg |-> result, ret |-> CallFinalizer(f, result)]>>,
          out |-> [result EXCEPT !.err = CallFinalizer(f, result)]]
    ELSE [calls |-> <<>>, out |-> result]

\* the context of the pipeline is canceled or its deadline passes
SeqCancel ==
    /\ ctxErr = Nil
    /\ spc # "done"
    /\ ctxErr' \in {Canceled, DeadlineExceeded}
    /\ UNCHANGED <<invVars, depVars, seqVars, stepVars>>

\* RunWithContext is called and doRun starts its loop
SeqRun ==
    /\ spc = "idle"
    /\ spc' = "select"
    /\ spos' = 1
    /\ UNCHANGED <<invVars, depVars, stepVars, ctxErr, pSteps, pHooks, pNoWrap, pFinalizer, stepErrs, shandler, shook,
                   sresult, sres, sout, invoked, hookCalls, Records, handled, finCalls>>

\* doRun: the loop is over, or the next step is taken from p.steps and the
\* select looks at ctx.Done()
SeqSelect ==
    /\ spc = "select"
    /\ IF spos > pSteps
       THEN /\ sres' = afterLoop(pNoWrap, ctxErr, IF pSteps = 0 THEN "" ELSE StepName(pSteps))
            /\ spc' = "finalize"
            /\ UNCHANGED <<shandler, shook>>
       ELSE IF ctxDone(ctxErr)
            THEN /\ sres' = PipelineFail(pNoWrap, ctxErr, StepName(spos))
                 /\ spc' = "finalize"
                 /\ UNCHANGED <<shandler, shook>>
            ELSE /\ shandler' \in StepHandlerKinds
                 /\ shook' = 1
                 /\ spc' = "hooks"
                 /\ sres' = sres
    /\ UNCHANGED <<invVars, depVars, stepVars, ctxErr, pSteps, pHooks, pNoWrap, pFinalizer, stepErrs, spos,
                   sresult, sout, invoked, hookCalls, Records, handled, finCalls>>

\* doRun: hooks(step); the first hook is DependencyRecorder.Record
SeqHook ==
    /\ spc = "hooks"
    /\ shook <= pHooks
    /\ hookCalls' = Append(hookCalls, <<NextHook(shook, pHooks), spos>>)
    /\ Records' = IF NextHook(shook, pHooks) = 1 THEN Append(Records, spos) ELSE Records
    /\ shook' = shook + 1
    /\ UNCHANGED <<invVars, depVars, stepVars, ctxErr, pSteps, pHooks, pNoWrap, pFinalizer, stepErrs, spc, spos, shandler,
                   sresult, sres, sout, invoked, handled, finCalls>>

\* doRun: the loop over the hooks is over and step.F(ctx) is called
SeqCallAction ==
    /\ spc = "hooks"
    /\ shook > pHooks
    /\ invoked' = Append(invoked, spos)
    /\ spc' = "exec"
    /\ UNCHANGED <<invVars, depVars, stepVars, ctxErr, pSteps, pHooks, pNoWrap, pFinalizer, stepErrs, spos, shandler, shook,
                   sresult, sres, sout, hookCalls, Records, handled, finCalls>>

\* step.F(ctx) returns
SeqActionReturns ==
    /\ spc = "exec"
    /\ \E kind \in ActionKinds : sresult' = ActionResult(kind, StepName(spos))
    /\ spc' = "handle"
    /\ UNCHANGED <<invVars, depVars, stepVars, ctxErr, pSteps, pHooks, pNoWrap, pFinalizer, stepErrs, spos, shandler, shook,
                   sres, sout, invoked, hookCalls, Records, handled, finCalls>>

\* doRun: the handler of the step, if any, is called; then the loop goes on
\* or doRun returns
SeqHandle ==
    /\ spc = "handle"
    /\ LET err == ResultingError(shandler, sresult)
           d == stepOutcome(pNoWrap, err, StepName(spos))
       IN  /\ stepErrs' = Append(stepErrs, err)
           /\ handled' = IF HandlerIsCalled(shandler, sresult)
                         THEN Append(handled, [step |-> spos,
                                               arg |-> [sresult EXCEPT !.name = StepName(spos)],
                                               ret |-> err])
                         ELSE handled
           /\ IF d.return
              THEN /\ sres' = d.res
                   /\ spc' = "finalize"
                   /\ spos' = spos
              ELSE /\ sres' = sres
                   /\ spc' = "select"
                   /\ spos' = spos + 1
    /\ sresult' = EmptyResult
    /\ shandler' = "none"
    /\ shook' = 0
    /\ UNCHANGED <<invVars, depVars, stepVars, ctxErr, pSteps, pHooks, pNoWrap, pFinalizer,
                   sout, invoked, hookCalls, Records, finCalls>>

\* RunWithContext: doRun has returned; the finalizer, if any, is called and
\* RunWithContext returns
SeqFinalize ==
    /\ spc = "finalize"
    /\ finCalls' = finCalls \o Finalized(pFinalizer, sres).calls
    /\ sout' = Finalized(pFinalizer, sres).out
    /\ spc' = "done"
    /\ UNCHANGED <<invVars, depVars, stepVars, ctxErr, pSteps, pHooks, pNoWrap, pFinalizer, stepErrs, spos, shandler, shook,
                   sresult, sres, invoked, hookCalls, Records, handled>>

\* ------------------------------------------------- dependency recorder
\* A DependencyRecorder used on its own: Record is called with steps in any
\* order, the same step more than once, and RequireDependencyByStepName is
\* called with any names.  Step k has the name StepName(k).
DependencyError(missing) ==
    [msg |-> "required steps did not run", is |-> {"DependencyError"}, missing |-> missing]

\* variant: only the last record is compared
foundInLastRecord(records, desiredName) ==
    records # <<>> /\ StepName(records[Len(records)]) = desiredName

\* the inner loop of RequireDependencyByStepName: found
foundInRecords(records, desiredName) ==
    \E i \in DOMAIN records : StepName(records[i]) = desiredName

RECURSIVE missingSteps(_, _)
\* the outer loop of RequireDependencyByStepName: missing
missingSteps(records, stepNames) ==
    IF stepNames = <<>>
    THEN <<>>
    ELSE (IF foundInRecords(records, Head(stepNames)) THEN <<>> ELSE <<Head(stepNames)>>)
         \o missingSteps(records, Tail(stepNames))

RequireDependencyByStepName(records, stepNames) ==
    IF Len(stepNames) = 0
    THEN Nil
    ELSE IF Len(missingSteps(records, stepNames)) = 0
         THEN Nil
         ELSE DependencyError(missingSteps(records, stepNames))

\* the names that can be asked for
RequestedNames == {StepName(k) : k \in 1..MaxNames}

\* the argument lists of RequireDependencyByStepName
Requests == UNION {[1..n -> RequestedNames] : n \in 0..MaxRequested}

\* DependencyRecorder.Record
Record ==
    /\ Len(Records) < MaxRecords
    /\ \E step \in 1..MaxNames : Records' = Append(Records, step)
    /\ UNCHANGED <<invVars, depVars, stepVars, ctxErr, pSteps, pHooks, pNoWrap, pFinalizer, stepErrs,
                   spc, spos, shandler, shook, sresult, sres, sout, invoked, hookCalls,
                   handled, finCalls>>

\* a call of DependencyRecorder.RequireDependencyByStepName
Require ==
    /\ \E stepNames \in Requests :
          depCall' = [records |-> Records, names |-> stepNames,
                      err |-> RequireDependencyByStepName(Records, stepNames),
                      called |-> TRUE]
    /\ UNCHANGED <<invVars, seqVars, stepVars, ctxErr>>

\* ------------------------------------------ two invocations of one Step
\* The action of one Step, built by NewFanOutStep or NewWorkerPoolStep over
\* SupplierFromSlice, is called twice, one call after the other or both at
\* the same time.  The objects the calls make are on the heap; a frame holds
\* the addresses of pipelineChan, m, wg and the counter of one call.  A
\* sub-pipeline is the pair of the call whose supplier wrote it and its
\* slice position.  The context is not canceled.
NewChan == [buf |-> <<>>, closed |-> FALSE]
NewSyncMap == [tbl |-> <<>>]
NewWaitGroup == [cnt |-> 0]
NewCounter == [val |-> 0]

\* variant: the four objects are made once, by the constructor of the Step,
\* and every call of step.F uses them
LocalsOfConstructor(h) ==
    IF h = <<>>
    THEN [heap |-> <<NewChan, NewSyncMap, NewWaitGroup, NewCounter>>,
          chan |-> 1, m |-> 2, wg |-> 3, count |-> 4]
    ELSE [heap |-> h, chan |-> 1, m |-> 2, wg |-> 3, count |-> 4]

\* step.F: pipelineChan := make(...); m := sync.Map{}; var wg sync.WaitGroup;
\* count := uint64(0)
LocalsOfCall(h) ==
    [heap |-> h \o <<NewChan, NewSyncMap, NewWaitGroup, NewCounter>>,
     chan |-> Len(h) + 1, m |-> Len(h) + 2, wg |-> Len(h) + 3, count |-> Len(h) + 4]

\* the frame of call inv with field f set to v
SetFrame(inv, f) == [frames EXCEPT ![inv] = f]

\* step.F is called: the locals are made, the supplier goroutine is started
\* and, in the pool, size workers are added to the wait group and started
InvokeStep(inv) ==
    /\ frames[inv].pc = "idle"
    /\ LET a == LocalsOfCall(heap)
           n == IF mode = "pool" THEN size ELSE 0
       IN  /\ heap' = [a.heap EXCEPT ![a.wg] = [cnt |-> a.heap[a.wg].cnt + n]]
           /\ frames' = SetFrame(inv, [pc |-> "running", chan |-> a.chan, m |-> a.m,
                                       wg |-> a.wg, count |-> a.count,
                                       sup |-> [pc |-> "loop", idx |-> 1],
                                       ranged |-> FALSE, workers |-> n,
                                       pending |-> {}, out |-> <<>>])
    /\ UNCHANGED <<depVars, seqVars, stepVars, ctxErr>>

\* SupplierFromSlice of call inv: the range over the slice, the select, and
\* the deferred close when it returns
SupplierStep(inv) ==
    /\ frames[inv].sup.pc = "loop"
    /\ IF SupplierStops(frames[inv].sup.idx, pipelines, ctxErr)
       THEN /\ heap' = [heap EXCEPT ![frames[inv].chan].closed = TRUE]
            /\ frames' = SetFrame(inv, [frames[inv] EXCEPT !.sup.pc = "done"])
       ELSE /\ heap' = heap
            /\ frames' = SetFrame(inv, [frames[inv] EXCEPT !.sup.pc = "send"])
    /\ UNCHANGED <<depVars, seqVars, stepVars, ctxErr>>

\* pipelinesChan <- pipe on the buffered channel of the pool
SupplierWrite(inv) ==
    /\ mode = "pool"
    /\ frames[inv].sup.pc = "send"
    /\ Len(heap[frames[inv].chan].buf) < Capacity
    /\ heap' = [heap EXCEPT ![frames[inv].chan].buf = Append(@, <<inv, frames[inv].sup.idx>>)]
    /\ frames' = SetFrame(inv, [frames[inv] EXCEPT !.sup = [pc |-> "loop", idx |-> @.idx + 1]])
    /\ UNCHANGED <<depVars, seqVars, stepVars, ctxErr>>

\* the loop of NewFanOutStep of call inv receives what the supplier of call
\* src writes to the same channel: wg.Add(1); n := i; i++; go func
LoopReceive(inv, src) ==
    /\ mode = "fanout"
    /\ frames[inv].pc = "running"
    /\ ~frames[inv].ranged
    /\ frames[src].sup.pc = "send"
    /\ frames[src].chan = frames[inv].chan
    /\ LET f == frames[inv]
           n == FanOutIndex(heap[f.count].val)
           g == [f EXCEPT !.pending = @ \cup {<<n, <<src, frames[src].sup.idx>>>>}]
           fs == SetFrame(inv, g)
       IN  /\ heap' = [heap EXCEPT ![f.wg].cnt = @ + 1, ![f.count].val = @ + 1]
           /\ frames' = [fs EXCEPT ![src].sup = [pc |-> "loop", idx |-> @.idx + 1]]
    /\ UNCHANGED <<depVars, seqVars, stepVars, ctxErr>>

\* the loop of NewFanOutStep of call inv ends on the closed channel
LoopEnd(inv) ==
    /\ mode = "fanout"
    /\ frames[inv].pc = "running"
    /\ ~frames[inv].ranged
    /\ RangeEnds(heap[frames[inv].chan].closed,
                 Cardinality({src \in Invocations :
                                 /\ frames[src].sup.pc = "send"
                                 /\ frames[src].chan = frames[inv].chan}))
    /\ frames' = SetFrame(inv, [frames[inv] EXCEPT !.ranged = TRUE])
    /\ UNCHANGED <<heap, depVars, seqVars, stepVars, ctxErr>>

\* poolWork of call inv: a worker that holds no sub-pipeline receives one
\* and takes its index, n := atomic.AddUint64(i, 1) - 1
WorkerTake(inv) ==
    /\ mode = "pool"
    /\ frames[inv].pc = "running"
    /\ Cardinality(frames[inv].pending) < frames[inv].workers
    /\ heap[frames[inv].chan].buf # <<>>
    /\ LET f == frames[inv]
           n == AtomicAddUint64(heap[f.count].val) - 1
       IN  /\ heap' = [heap EXCEPT ![f.chan].buf = Tail(@),
                                   ![f.count].val = AtomicAddUint64(@)]
           /\ frames' = SetFrame(inv, [f EXCEPT !.pending =
                                             @ \cup {<<n, Head(heap[f.chan].buf)>>}])
    /\ UNCHANGED <<depVars, seqVars, stepVars, ctxErr>>

\* m.Store(n, pipe.RunWithContext(ctx)) of a goroutine of call inv; the
\* goroutine of the fan-out then returns, defer wg.Done()
StoreRecord(inv) ==
    /\ frames[inv].pc = "running"
    /\ \E t \in frames[inv].pending :
         /\ heap' = [heap EXCEPT ![frames[inv].m].tbl = Store(@, t[1], t[2]),
                                 ![frames[inv].wg].cnt =
                                     IF mode = "fanout" THEN @ - 1 ELSE @]
         /\ frames' = SetFrame(inv, [frames[inv] EXCEPT !.pending = @ \ {t}])
    /\ UNCHANGED <<depVars, seqVars, stepVars, ctxErr>>

\* poolWork of call inv: the range ends on the closed and drained channel;
\* defer wg.Done()
WorkerLeave(inv) ==
    /\ mode = "pool"
    /\ frames[inv].pc = "running"
    /\ Cardinality(frames[inv].pending) < frames[inv].workers
    /\ RangeEnds(heap[frames[inv].chan].closed, Len(heap[frames[inv].chan].buf))
    /\ heap' = [heap EXCEPT ![frames[inv].wg].cnt = @ - 1]
    /\ frames' = SetFrame(inv, [frames[inv] EXCEPT !.workers = @ - 1])
    /\ UNCHANGED <<depVars, seqVars, stepVars, ctxErr>>

\* wg.Wait() of call inv returns and collectResults reads the table
ReturnStep(inv) ==
    /\ frames[inv].pc = "running"
    /\ mode = "fanout" => frames[inv].ranged
    /\ WaitReturns(heap[frames[inv].wg].cnt)
    /\ frames' = SetFrame(inv, [frames[inv] EXCEPT !.pc = "returned",
                                                   !.out = RangeToMap(heap[frames[inv].m].tbl)])
    /\ UNCHANGED <<heap, depVars, seqVars, stepVars, ctxErr>>

\* ------------------------------------------------------------ properties
Range(seq) == {seq[j] : j \in DOMAIN seq}

Quiesced == pc \in {"collect", "collected", "returned", "reported"}

HandlerStarted == pc \in {"collected", "returned", "reported"}

\* number of goroutines whose pc is in pcs
CountAt(pcs) ==
    LET S == {t \in BagToSet(tasks) : t.pc \in pcs}
    IN  BagCardinality([t \in S |-> CopiesIn(t, tasks)])

\* number of goroutines that hold a sub-pipeline: received and not yet stored
Running == CountAt({"claim", "select", "exec", "store"})

\* C1: in fan-out and in the pool, once collectResults has started (the
\* handler was invoked) every sub-pipeline received from the channel has
\* stored its result, every goroutine has exited, and the table still is the
\* map the handler was given: nothing is stored after the handler started,
\* also when the context was canceled while tasks were in flight.
C1_HandlerAfterAllStores ==
    HandlerStarted =>
        /\ nstores = Len(dequeued)
        /\ \A t \in BagToSet(tasks) : t.pc = "exited"
        /\ handler # "nil" => handlerArg = <<RangeToMap(m)>>

\* C1 witness: the handler has run on a table that holds a record cut short
\* by cancellation and a record of a sub-pipeline that ran its step
C1_Witness ==
    /\ HandlerStarted
    /\ handler # "nil"
    /\ \E k \in DOMAIN m : m[k].canceled
    /\ \E k \in DOMAIN m : ~m[k].canceled /\ m[k].name # ""

\* C2: when the context is never canceled, the map given to the handler has
\* exactly the keys 0..N-1 for the N supplied sub-pipelines, and each
\* sub-pipeline was stored exactly once.
C2_AllIndicesWithoutCancel ==
    (HandlerStarted /\ ctxErr = Nil /\ handler # "nil") =>
        /\ DOMAIN handlerArg[1] = 0..(pipelines - 1)
        /\ nstores = pipelines
        /\ {s[2] : s \in stores} = 1..pipelines

\* C2 witness: a pool of two workers returned after two sub-pipelines, no
\* cancellation
C2_Witness ==
    /\ pc = "returned"
    /\ ctxErr = Nil
    /\ handler # "nil"
    /\ mode = "pool"
    /\ size = 2
    /\ pipelines = 2
    /\ DOMAIN handlerArg[1] = {0, 1}

\* C3: in a pool of size N exactly N workers are started and at most N
\* sub-pipelines are held by workers (received and not yet stored) at any
\* moment.
C3_PoolBoundsConcurrency ==
    (mode = "pool" /\ size >= 1) =>
        /\ Running <= size
        /\ BagCardinality(tasks) <= size
        /\ pc \in {"wait", "collect", "collected", "returned", "reported"} =>
             BagCardinality(tasks) = size

\* C3 witness: two workers of a pool of size two execute a step at once
C3_Witness ==
    /\ mode = "pool"
    /\ size = 2
    /\ CountAt({"exec"}) = 2

\* C4: with a size lower than 1 NewWorkerPoolStep panics: no Step exists, the
\* supplier is never started and nothing is received or run.
C4_LowSizePanics ==
    (mode = "pool" /\ size < 1) =>
        /\ pc \in {"new", "panicked"}
        /\ sup.pc = "idle"
        /\ tasks = EmptyBag
        /\ written = <<>>

\* C4 witness: the constructor has panicked on a non-empty slice
C4_Witness ==
    /\ mode = "pool"
    /\ size < 1
    /\ pc = "panicked"
    /\ pipelines > 0

\* C5: when the context is not canceled as the step returns, the outcome is
\* what the handler returned: the same error, nil included, and in fan-out
\* the very Result.
C5_OutcomeIsHandlerResult ==
    (pc \in {"returned", "reported"} /\ ctxErr = Nil /\ handler # "nil") =>
        /\ outcome.err = collected.err
        /\ ~outcome.canceled
        /\ mode = "fanout" => outcome = collected
        /\ handler = "ignore" => outcome.err = Nil
        /\ handler = "always" => outcome.err = ErrCollect

\* C5 witness: the handler ignored a failed sub-pipeline and the step
\* returned without error
C5_Witness ==
    /\ pc = "returned"
    /\ ctxErr = Nil
    /\ handler = "ignore"
    /\ \E k \in DOMAIN m : IsFailed(m[k])
    /\ outcome.err = Nil

\* C6: without a handler and without cancellation the outcome carries no
\* error, however many sub-pipelines failed.
C6_NilHandlerSucceeds ==
    (pc \in {"returned", "reported"} /\ ctxErr = Nil /\ handler = "nil") =>
        outcome.err = Nil

\* C6 witness: every one of two sub-pipelines failed, no handler
C6_Witness ==
    /\ pc = "returned"
    /\ ctxErr = Nil
    /\ handler = "nil"
    /\ DOMAIN m = {0, 1}
    /\ \A k \in DOMAIN m : IsFailed(m[k])

\* C7: when the context is canceled as the step returns and the handler
\* returned an error, the outcome is a composite error: it wraps the context's
\* error, its text is the context's error, ", collection error: " and the
\* handler's error text, the canceled flag is set; the enclosing pipeline
\* reports a canceled failure of the concurrent step.
C7_CompositeError ==
    (pc \in {"returned", "reported"} /\ ctxErr # Nil /\ collected.err # Nil) =>
        /\ outcome.err.is = ctxErr.is
        /\ outcome.err.msg = ctxErr.msg \o ", collection error: " \o collected.err.msg
        /\ outcome.canceled
        /\ pc = "reported" =>
             /\ parent.name = StepFName
             /\ parent.canceled
             /\ parent.err.msg = "step \"parallel\" failed: " \o outcome.err.msg
             /\ parent.err.is = ctxErr.is

\* C7 witness: deadline exceeded and the handler's "some error", reported by
\* the enclosing pipeline
C7_Witness ==
    /\ pc = "reported"
    /\ mode = "fanout"
    /\ ctxErr = DeadlineExceeded
    /\ handler = "always"
    /\ parent.err.msg =
         "step \"parallel\" failed: context deadline exceeded, collection error: some error"

\* C8: when the context is canceled as the step returns and the handler
\* returned nil or there is none, the outcome is the context's error with the
\* canceled flag set, also when every sub-pipeline succeeded.
C8_CancellationSurfaces ==
    (pc \in {"returned", "reported"} /\ ctxErr # Nil /\ collected.err = Nil) =>
        /\ outcome.err = ctxErr
        /\ outcome.canceled

\* C8 witness: two sub-pipelines ran and succeeded, the context was canceled
\* before the step returned
C8_Witness ==
    /\ pc = "returned"
    /\ ctxErr # Nil
    /\ collected.err = Nil
    /\ DOMAIN m = {0, 1}
    /\ \A k \in DOMAIN m : ~IsFailed(m[k]) /\ m[k].name # ""

\* C9: under any cancellation timing no key is stored twice and no record
\* belongs to a sub-pipeline that was not dequeued; at quiescence the records
\* are one-to-one with the dequeued sub-pipelines.
C9_RecordsMatchDequeued ==
    /\ Cardinality(stores) = nstores
    /\ \A s1, s2 \in stores : s1 # s2 => s1[1] # s2[1] /\ s1[2] # s2[2]
    /\ \A s \in stores : s[2] \in Range(dequeued)
    /\ Quiesced =>
         /\ nstores = Len(dequeued)
         /\ {s[2] : s \in stores} = Range(dequeued)
         /\ Cardinality(DOMAIN m) = Len(dequeued)
         /\ DOMAIN m = {s[1] : s \in stores}

\* C9 witness: quiescence after a cancellation that truncated the supply:
\* one of two sub-pipelines was dequeued and has its record
C9_Witness ==
    /\ Quiesced
    /\ ctxErr # Nil
    /\ pipelines = 2
    /\ Len(dequeued) = 1
    /\ Cardinality(DOMAIN m) = 1

\* position of slice position p in the order of reception
DequeuePos(p) == CHOOSE j \in DOMAIN dequeued : dequeued[j] = p

\* C10 (as claimed): in the pool, a sub-pipeline received from the channel
\* before another one is stored under a smaller key.
C10_IndexOrderIsDequeueOrder ==
    mode = "pool" =>
        \A a, b \in stores :
            DequeuePos(a[2]) < DequeuePos(b[2]) => a[1] < b[1]

\* ------------------------------------------------------------------ next
\* C11: in NewFanOutStep the record stored under key i belongs to the
\* (i+1)-th sub-pipeline the supplier wrote to the channel, whatever the
\* order in which the tasks finish and store: every store made so far has
\* used the key that is one less than the position of its sub-pipeline in
\* the sequence of writes, and no key was used by two sub-pipelines.
C11_FanOutIndexIsSupplyOrder ==
    mode = "fanout" =>
        /\ \A s \in stores :
              /\ s[1] + 1 \in 1..Len(written)
              /\ written[s[1] + 1] = s[2]
        /\ \A s1, s2 \in stores : s1[1] = s2[1] => s1 = s2
        /\ \A t \in BagToSet(tasks) :
              t.pc \in {"select", "exec", "store"} =>
                  /\ t.n + 1 \in 1..Len(written)
                  /\ written[t.n + 1] = t.pipe

\* the second sub-pipeline written has stored under key 1 before the first
\* one has stored at all
C11_Witness ==
    /\ mode = "fanout"
    /\ stores = {<<1, 2>>}
    /\ DOMAIN m = {1}
    /\ \E t \in BagToSet(tasks) : t.pipe = 1 /\ t.n = 0 /\ t.pc = "exec"

C13_NoRetrievalAfterCancel ==
    [][(mode = "fanout" /\ ctxErr # Nil) => dequeued' = dequeued]_vars

\* number of records in the table that report the cancellation
CanceledRecords == Cardinality({k \in DOMAIN m : m[k].canceled})

\* C14 as stated: in a pool of size N fed by SupplierFromSlice, which checks
\* the cancellation before each write, at most N records report the
\* cancellation.
C14_CanceledRecordsWithinPoolSize ==
    (mode = "pool" /\ size >= 1) => CanceledRecords <= size

\* C14, amended: in a pool of size N fed by SupplierFromSlice at most 2N+1
\* records report the cancellation: at most one for each of the N workers,
\* for the sub-pipeline it held when the cancellation fired, and one for
\* each sub-pipeline that was buffered in the channel (at most N) or being
\* written to it (at most one) at that moment.
C14_CanceledRecordsWithinHeldAndDue ==
    (mode = "pool" /\ size >= 1) =>
        /\ CanceledRecords <= size + atCancel.due
        /\ atCancel.due <= size + 1
        /\ CanceledRecords <= 2 * size + 1

\* more records than the pool has workers report the cancellation
C14_Witness ==
    /\ mode = "pool"
    /\ size >= 1
    /\ Quiesced
    /\ atCancel.due >= 1
    /\ CanceledRecords > size

\* C15: with SupplierFromSlice, which closes the channel, and steps that
\* return, an invoked fan-out or pool step returns in the end when the
\* goroutines are scheduled fairly, whether the context is canceled or not
\* and whenever it is.
C15_InvokedStepReturns ==
    (pc \in {"spawn", "range", "wait"}) ~> (pc \in {"returned", "reported"})

\* the step has returned after a cancellation that cut the supply short
C15_Witness ==
    /\ pc = "returned"
    /\ ctxErr # Nil
    /\ Len(written) < pipelines
    /\ nstores >= 1

\* C16: the step does not get past its wait while the channel is not
\* closed: the fan-out loop has not ended, and neither step has collected
\* or returned, unless the supplier has closed the channel.  With a supplier
\* that returns without closing the channel the channel stays open, so the
\* step never collects, returns or reports anything.
C16_NoReturnBeforeClose ==
    /\ Quiesced => closed
    /\ (mode = "fanout" /\ pc = "wait") => closed
    /\ ~closes => (~closed /\ pc \in {"new", "panicked", "constructed",
                                       "spawn", "range", "wait"})

\* the supplier has returned without closing the channel, every
\* sub-pipeline it wrote has stored its record, and the pool waits
C16_Witness ==
    /\ ~closes
    /\ sup.pc = "done"
    /\ mode = "pool"
    /\ pc = "wait"
    /\ Len(written) >= 1
    /\ nstores = Len(written)
    /\ CountAt({"recv"}) = size

\* The phase of an invocation, read off the position of step.F and the
\* channel: 0 not invoked, 1 Supplying (before wg.Wait has returned, channel
\* open), 2 Draining (before wg.Wait has returned, channel closed),
\* 3 Quiesced (wg.Wait has returned), 4 Collected (collectResults has
\* returned), 5 Returned.
Phase ==
    CASE pc \in {"new", "panicked", "constructed"} -> 0
      [] pc \in {"spawn", "range", "wait"} /\ ~closed -> 1
      [] pc \in {"spawn", "range", "wait"} /\ closed -> 2
      [] pc = "collect" -> 3
      [] pc = "collected" -> 4
      [] pc \in {"returned", "reported"} -> 5

\* C17: an invocation goes through Supplying, Draining, Quiesced, Collected
\* and Returned in this order, one phase at a time; and from Quiesced on,
\* also when the context was canceled during Supplying, every sub-pipeline
\* that was dequeued has stored its record and no goroutine holds one.
C17_PhasesInOrder ==
    /\ [][Phase' = Phase \/ Phase' = Phase + 1]_vars
    /\ [](Phase >= 3 => (nstores = Len(dequeued) /\ Len(dequeued) = Len(written)
                          /\ Running = 0))

\* collectResults has returned after a cancellation that cut the supply
\* short while a sub-pipeline was in flight
C17_Witness ==
    /\ Phase = 4
    /\ ctxErr # Nil
    /\ Len(written) < pipelines
    /\ CanceledRecords >= 1

\* C18: nothing ends a running step but its own return, also when the
\* context is canceled: a goroutine inside step.F either is still there
\* after a step of the program, or its step has returned and the goroutine
\* goes on with the select before the next step or stores the Result of the
\* step that ran, which is not a cancellation; and while a goroutine is
\* inside step.F the concurrent step has not got past wg.Wait.
C18_RunningStepCompletes ==
    /\ [][\A t \in BagToSet(tasks) :
            t.pc = "exec" =>
                \/ CopiesIn(t, tasks') >= CopiesIn(t, tasks)
                \/ \E u \in BagToSet(tasks') :
                      /\ u.pipe = t.pipe
                      /\ u.n = t.n
                      /\ \/ u.pc = "select" /\ u.pos = t.pos + 1
                         \/ /\ u.pc = "store"
                            /\ ~u.res.canceled
                            /\ u.res.name = StepName(t.pos)
                            /\ u.res \in {(doRunStep(StepResult(k, StepName(t.pos)),
                                                     StepName(t.pos))).res :
                                             k \in StepKinds}]_vars
    /\ [](CountAt({"exec"}) >= 1 => (~Quiesced /\ pc \in {"spawn", "range", "wait"}))

\* the context is canceled, the channel is closed and the step waits for a
\* sub-pipeline whose step is running
C18_Witness ==
    /\ ctxErr # Nil
    /\ closed
    /\ pc = "wait"
    /\ CountAt({"exec"}) >= 1

\* C19: SupplierFromSlice has closed the channel exactly when it has
\* returned, whether it returned at the end of the slice or because its
\* select found the context canceled; and once the channel is closed it
\* stays closed, the supplier takes no further step (it does not close
\* again) and nothing more is written to the channel.
C19_ClosesOnceOnEveryExit ==
    /\ [](closed <=> sup.pc = "done")
    /\ [][closed => /\ closed'
                    /\ sup' = sup
                    /\ written' = written
                    /\ Len(chan') <= Len(chan)]_vars
    /\ [][(~closed /\ closed') => (sup.pc = "close" /\ sup'.pc = "done")]_vars

\* the supplier has returned because of the cancellation, before the end of
\* the slice, and the channel is closed
C19_Witness ==
    /\ closed
    /\ sup.pc = "done"
    /\ sup.idx <= pipelines
    /\ ctxErr # Nil

\* C20: SupplierFromSlice writes only after a select that found the context
\* not canceled; a select that finds it canceled is followed by the close
\* and by no write; so what has been written is at every moment a prefix
\* of the slice, in the order of the slice.
C20_WritesPrefixUntilCancelSeen ==
    /\ [](/\ Len(written) <= pipelines
          /\ \A j \in 1..Len(written) : written[j] = j
          /\ sup.pc = "send" => sup.idx = Len(written) + 1)
    /\ [][written' # written =>
            (sup.pc = "send" /\ written' = Append(written, sup.idx))]_vars
    /\ [][(sup.pc = "loop" /\ sup'.pc = "send") => ctxErr = Nil]_vars
    /\ [][(sup.pc = "loop" /\ ctxErr # Nil /\ sup' # sup) =>
            (sup'.pc = "close" /\ written' = written)]_vars
    /\ [][sup.pc \in {"close", "done"} =>
            (sup'.pc \in {"close", "done"} /\ written' = written)]_vars

\* the supplier's select has found the context canceled after it wrote a
\* proper prefix of the slice
C20_Witness ==
    /\ sup.pc = "close"
    /\ ctxErr # Nil
    /\ Len(written) >= 1
    /\ Len(written) < pipelines
    /\ sup.idx = Len(written) + 1

\* C21: the map the result handler is given holds, for every sub-pipeline
\* that was dequeued, under the key that sub-pipeline stored at, exactly the
\* Result its RunWithContext returned, error included, and nothing else.
C21_HandlerMapHoldsRunResults ==
    (HandlerStarted /\ handler # "nil") =>
        /\ Len(handlerArg) >= 1
        /\ \A p \in Range(dequeued) :
              \E s \in stores :
                  /\ s[2] = p
                  /\ s[1] \in DOMAIN handlerArg[1]
                  /\ <<p, handlerArg[1][s[1]]>> \in ran
        /\ \A r1, r2 \in ran : r1[1] = r2[1] => r1 = r2
        /\ Cardinality(DOMAIN handlerArg[1]) = Len(dequeued)

\* the handler got a map with the Result of a failed step and the Result
\* of a sub-pipeline that succeeded
C21_Witness ==
    /\ HandlerStarted
    /\ handler # "nil"
    /\ \E k \in DOMAIN handlerArg[1] :
          handlerArg[1][k].err # Nil /\ ~handlerArg[1][k].canceled
    /\ \E k \in DOMAIN handlerArg[1] : handlerArg[1][k].err = Nil

\* C22: a result handler that is not nil is called exactly once in an
\* invocation of the concurrent step: never before collectResults, once when
\* collectResults has returned and never again, also when no sub-pipeline
\* was supplied and when the context is canceled; without a handler nothing
\* is called.
C22_HandlerCalledOnce ==
    /\ ~HandlerStarted => handlerArg = <<>>
    /\ (HandlerStarted /\ handler # "nil") => Len(handlerArg) = 1
    /\ (HandlerStarted /\ handler = "nil") => handlerArg = <<>>

\* the step has returned after the handler was called once, with an empty
\* map, the context being canceled
C22_Witness ==
    /\ pc = "returned"
    /\ handler # "nil"
    /\ Len(handlerArg) = 1
    /\ DOMAIN handlerArg[1] = {}
    /\ ctxErr # Nil

\* C23: with SupplierFromSlice, which stops on cancellation and closes the
\* channel, no goroutine the step started is running once the step has
\* returned: the supplier has returned, and every goroutine that was
\* started (the workers of the pool, one task for each sub-pipeline
\* dequeued in fan-out) has finished.
C23_NoGoroutineLeftAfterReturn ==
    pc \in {"returned", "reported"} =>
        /\ sup.pc = "done"
        /\ \A t \in BagToSet(tasks) : t.pc = "exited"
        /\ BagCardinality(tasks) = IF mode = "pool" THEN size ELSE Len(dequeued)
        /\ wg = 0

\* the step has returned after a cancellation stopped the supplier before
\* the end of the slice, and two goroutines had been started
C23_Witness ==
    /\ pc = "returned"
    /\ ctxErr # Nil
    /\ sup.idx <= pipelines
    /\ BagCardinality(tasks) >= 2

\* C24: with pool size 1 the sub-pipelines run one after another in the
\* order they were supplied: at most one is held by a goroutine, it is the
\* next one after those that have stored, and they are dequeued in the order
\* written; and key i holds the Result that the run of the (i+1)-th
\* sub-pipeline supplied returned.
C24_PoolOfOneIsSequential ==
    (mode = "pool" /\ size = 1) =>
        /\ Running <= 1
        /\ \A j \in 1..Len(dequeued) : dequeued[j] = written[j]
        /\ \A t \in BagToSet(tasks) :
              t.pc \in {"claim", "select", "exec", "store"} =>
                  /\ t.pipe = nstores + 1
                  /\ t.pipe = dequeued[Len(dequeued)]
        /\ \A s \in stores : written[s[1] + 1] = s[2]
        /\ DOMAIN m = 0..(nstores - 1)
        /\ \A k \in DOMAIN m : <<written[k + 1], m[k]>> \in ran

\* the single worker has run and stored two sub-pipelines, the first of
\* which failed
C24_Witness ==
    /\ mode = "pool"
    /\ size = 1
    /\ stores = {<<0, 1>>, <<1, 2>>}
    /\ m[0].err # Nil
    /\ m[1].err = Nil
    /\ m[1].name = "s1"

\* the steps 1..n in the order they were added
FirstSteps(n) == [i \in 1..n |-> i]

\* doRun's Result is the canceled failure of the step at position pos
IsCanceledFailureOf(result, pos) ==
    /\ result.canceled
    /\ ~result.aborted
    /\ result.name = StepName(pos)
    /\ result.err # Nil
    /\ ctxErr.is \subseteq result.err.is

FirstError ==
    IF \E i \in DOMAIN stepErrs : stepErrs[i] # Nil
    THEN CHOOSE i \in DOMAIN stepErrs :
             stepErrs[i] # Nil /\ \A j \in 1..(i - 1) : stepErrs[j] = Nil
    ELSE 0

\* C26 as stated: once a pipeline without finalizer has returned, and some
\* step's resulting error was non-nil, the result carries the name of the
\* first such step and an error that is or wraps the error of that step.
C26_ResultCarriesFirstError ==
    (spc = "done" /\ pFinalizer = "none" /\ FirstError # 0)
        => (/\ sout.name = StepName(FirstError)
            /\ sout.err # Nil
            /\ stepErrs[FirstError].is \subseteq sout.err.is)

\* C26, amended: the actions of the steps are invoked one after the other
\* in the order the steps were added; the first step whose resulting error
\* is non-nil is the last step that is executed, no later step's action is
\* invoked, and the result carries that step's name and, unless the error
\* is or wraps ErrAbort, an error that is or wraps the error of that step;
\* for ErrAbort the result's error is nil and the result is aborted.
C26_FirstErrorStopsPipeline ==
    /\ invoked = FirstSteps(Len(invoked))
    /\ Len(stepErrs) <= Len(invoked)
    /\ Len(invoked) <= Len(stepErrs) + 1
    /\ FirstError \in {0, Len(stepErrs)}
    /\ FirstError # 0 =>
          /\ spc \in {"finalize", "done"}
          /\ invoked = FirstSteps(FirstError)
          /\ sres.name = StepName(FirstError)
          /\ IF "ErrAbort" \in stepErrs[FirstError].is
             THEN sres.err = Nil /\ sres.aborted
             ELSE /\ sres.err # Nil
                  /\ ~sres.aborted
                  /\ stepErrs[FirstError].is \subseteq sres.err.is
          /\ (spc = "done" /\ pFinalizer = "none") => sout = sres

\* the first of two steps fails: the second is not invoked and the result
\* carries the name and the error of the first
C26_Witness ==
    /\ spc = "done"
    /\ pSteps = 2
    /\ pFinalizer = "none"
    /\ invoked = <<1>>
    /\ stepErrs = <<ErrStep>>
    /\ sout.name = StepName(1)
    /\ "ErrStep" \in sout.err.is

\* the last call of a step handler
LastHandled(calls) == calls[Len(calls)]

\* C27: when a step has a handler, the handler is called once the step's
\* action has returned, whatever it returned, with the Result of the action,
\* and before the action of the next step is invoked; what the handler
\* returns alone decides: if it is nil the pipeline goes on to the next step
\* even if the action failed, if it is non-nil the loop over the steps ends
\* even if the action succeeded.  Before the action of a step has returned
\* the handler has not been called for that step.
C27_HandlerDecides ==
    /\ [][(spc = "handle" /\ shandler # "none" /\ spc' # "handle")
            => (/\ invoked[Len(invoked)] = spos
                /\ invoked' = invoked
                /\ Len(handled') = Len(handled) + 1
                /\ LastHandled(handled').step = spos
                /\ LastHandled(handled').arg.err = sresult.err
                /\ IF LastHandled(handled').ret = Nil
                   THEN spc' = "select" /\ spos' = spos + 1
                   ELSE spc' = "finalize" /\ IsFailed(sres') # sres'.aborted)]_vars
    /\ [][(spc # "handle" \/ spc' = "handle") => handled' = handled]_vars
    /\ [](\A i \in DOMAIN handled :
             /\ handled[i].step \in Range(invoked)
             /\ spc \in {"hooks", "exec", "handle"} => handled[i].step < spos)

\* the action of the first step fails and its handler returns nil, so the
\* second step runs; its action succeeds and its handler returns an error,
\* so the pipeline fails
C27_Witness ==
    /\ spc = "done"
    /\ invoked = <<1, 2>>
    /\ Len(handled) = 2
    /\ handled[1].arg.err = ErrStep /\ handled[1].ret = Nil
    /\ handled[2].arg.err = Nil /\ handled[2].ret = ErrHandler
    /\ "ErrHandler" \in sres.err.is

\* C28: a pipeline with a finalizer calls it exactly once per
\* RunWithContext, with the Result of doRun, whether that Result is a
\* success, a failure, aborted or canceled; it is called after the last
\* executed step (no hook, action or step handler is called after it), and
\* the error of the Result that RunWithContext returns is exactly what the
\* finalizer returned, the rest of the Result being that of doRun.  Without
\* a finalizer nothing is called.
C28_FinalizerCalledOnceAndDecidesError ==
    /\ [](pFinalizer = "none" => finCalls = <<>>)
    /\ [](pFinalizer # "none" =>
             /\ Len(finCalls) = IF spc = "done" THEN 1 ELSE 0
             /\ spc = "done" =>
                   /\ finCalls[1].arg = sres
                   /\ sout.err = finCalls[1].ret
                   /\ sout = [sres EXCEPT !.err = finCalls[1].ret])
    /\ [][finCalls # <<>> =>
             /\ invoked' = invoked
             /\ hookCalls' = hookCalls
             /\ handled' = handled
             /\ finCalls' = finCalls]_vars

\* a canceled pipeline whose finalizer returns nil: the finalizer was
\* called once with the canceled failure and the pipeline returns nil
C28_Witness ==
    /\ spc = "done"
    /\ pFinalizer = "nil"
    /\ sres.canceled
    /\ sres.err # Nil
    /\ Len(finCalls) = 1
    /\ sout.err = Nil

\* C29: when the resulting error of a step is ErrAbort, or wraps it, the
\* pipeline stops without error: that step is the last one executed, no
\* later step's action is invoked, and the Result of doRun has a nil error,
\* is aborted, is not canceled and carries the step's name; RunWithContext
\* returns an aborted Result, whose error is nil unless a finalizer returned
\* an error of its own.
C29_AbortStopsWithoutError ==
    \A i \in DOMAIN stepErrs :
        "ErrAbort" \in stepErrs[i].is =>
            /\ i = Len(stepErrs)
            /\ spc \in {"finalize", "done"}
            /\ invoked = FirstSteps(i)
            /\ sres = NewResult(StepName(i), Nil, TRUE, FALSE)
            /\ ~IsFailed(sres)
            /\ spc = "done" =>
                  /\ sout.aborted
                  /\ pFinalizer # "raise" => ~IsFailed(sout)

\* the first of two steps returns an error that wraps ErrAbort: the second
\* is not invoked and the pipeline returns an aborted Result without error
C29_Witness ==
    /\ spc = "done"
    /\ pSteps = 2
    /\ pFinalizer = "none"
    /\ stepErrs = <<ErrAbortWrapped>>
    /\ invoked = <<1>>
    /\ sout.aborted
    /\ sout.err = Nil

\* the calls <<hook, step>> made when every hook was called in the given
\* order for each of the first n steps, and the first extra hooks for the
\* step after them
HooksOf(n, extra) ==
    [j \in 1..(n * pHooks + extra) |-> <<((j - 1) % pHooks) + 1, ((j - 1) \div pHooks) + 1>>]

RecordedNames(records) == {StepName(records[i]) : i \in DOMAIN records}

\* is the name among those of the recorded steps
IsMissingIn(records, name) == name \notin RecordedNames(records)

\* C31: after any sequence of Record calls, RequireDependencyByStepName
\* returns nil exactly when every requested name is the name of some
\* recorded step, whatever the order and the duplicates of the records and
\* of the requested names; otherwise it returns a DependencyError whose
\* MissingSteps are the requested names that no recorded step has, in the
\* order they were requested.
C31_RequireReturnsMissingNamesInOrder ==
    depCall.called =>
        /\ (depCall.err = Nil) <=>
               (\A i \in DOMAIN depCall.names :
                    ~IsMissingIn(depCall.records, depCall.names[i]))
        /\ depCall.err # Nil =>
               /\ "DependencyError" \in depCall.err.is
               /\ depCall.err.missing =
                      SelectSeq(depCall.names,
                                LAMBDA name : IsMissingIn(depCall.records, name))

\* the same step was recorded twice and another one after it; of the two
\* requested names the first is missing and the second is that of the step
\* recorded twice
C31_Witness ==
    /\ depCall.called
    /\ depCall.records = <<1, 1, 3>>
    /\ depCall.names = <<StepName(2), StepName(1)>>
    /\ depCall.err = DependencyError(<<StepName(2)>>)

\* the sub-pipelines, as slice positions, that were dequeued after the
\* context was canceled
DequeuedAfterCancel ==
    IF track /\ ctxErr # Nil
    THEN {dequeued[j] : j \in (atCancel.deq + 1)..Len(dequeued)}
    ELSE {}

\* C32: a sub-pipeline that a worker of the pool (or the loop of the
\* fan-out) dequeues after the context was canceled invokes none of its
\* step actions: no goroutine is ever inside a step action of such a
\* sub-pipeline.  If it has a first step, what its RunWithContext returns,
\* and so its record, is a failure with the canceled flag set, named after
\* the first step and wrapping the context's error; if it has no step it
\* returns the empty Result.
C32_DequeuedAfterCancelRunsNoStep ==
    /\ \A t \in BagToSet(tasks) :
          t.pipe \in DequeuedAfterCancel => t.pc # "exec" /\ t.pos <= 1
    /\ \A r \in ran :
          r[1] \in DequeuedAfterCancel =>
             \/ r[2] = NewEmptyResult("")
             \/ /\ r[2].canceled
                /\ IsFailed(r[2])
                /\ r[2].name = StepName(1)
                /\ ctxErr.is \subseteq r[2].err.is
    /\ \A st \in stores :
          st[2] \in DequeuedAfterCancel => <<st[2], m[st[1]]>> \in ran

\* a pool worker dequeued a sub-pipeline after the cancellation and its
\* record, a canceled failure named after the first step, is in the table
C32_Witness ==
    /\ mode = "pool"
    /\ \E st \in stores :
          /\ st[2] \in DequeuedAfterCancel
          /\ m[st[1]].canceled
          /\ m[st[1]].name = StepName(1)
          /\ "Canceled" \in m[st[1]].err.is

\* the supplier of the pool is blocked in its write on the full channel
BlockedOnFullChannel == mode = "pool" /\ sup.pc = "send" /\ Len(chan) >= size

\* C33: in the pool step of size N the channel never holds more than N
\* sub-pipelines that were written and not yet dequeued; a write happens
\* only while fewer than N are held, and while the supplier is in a write
\* on the full channel it stays there, whatever else happens, until a
\* worker has dequeued.
C33_ChannelHoldsAtMostPoolSize ==
    /\ []((mode = "pool" /\ pc \notin {"new", "panicked"}) =>
             /\ Len(chan) <= size
             /\ Len(written) - Len(dequeued) = Len(chan))
    /\ [][(mode = "pool" /\ written' # written) =>
             /\ Len(chan) < size
             /\ Len(chan') = Len(chan) + 1]_vars
    /\ [][BlockedOnFullChannel => (sup' = sup /\ written' = written)]_vars

\* the channel of a pool of size 1 is full and the supplier is blocked in
\* the write of the next sub-pipeline, after the context was canceled
C33_Witness ==
    /\ BlockedOnFullChannel
    /\ size = 1
    /\ Len(chan) = 1
    /\ Len(written) - Len(dequeued) = 1
    /\ ctxErr # Nil

WrittenOrCheckedAtCancel == atCancel.deq + atCancel.due

\* C35: after the context is canceled SupplierFromSlice writes at most one
\* more sub-pipeline to the channel, and if it writes one it is the one
\* whose check of the context had already passed when the cancellation
\* fired, that is the one the supplier was writing at that moment: no more
\* is ever written than what was written or being written when the
\* cancellation fired (in the fan-out, whose channel holds nothing, that is
\* at most one more than what was dequeued by then); once the context is
\* canceled the supplier never starts another write, and a write that
\* completes after the cancellation is one that was started before it.
C35_AtMostOneWriteAfterCancel ==
    /\ []((track /\ ctxErr # Nil) => Len(written) <= WrittenOrCheckedAtCancel)
    /\ []((track /\ ctxErr # Nil /\ mode = "fanout") =>
             /\ atCancel.due <= 1
             /\ Len(written) <= atCancel.deq + 1)
    /\ [][(ctxErr # Nil /\ sup.pc # "send") => sup'.pc # "send"]_vars
    /\ [][(ctxErr # Nil /\ written' # written) =>
             /\ sup.pc = "send"
             /\ sup'.pc = "loop"
             /\ Len(written') = Len(written) + 1]_vars

\* the context was canceled while the supplier of a fan-out was in the
\* write of the second of two sub-pipelines, which was then written
C35_Witness ==
    /\ mode = "fanout"
    /\ ctxErr # Nil
    /\ atCancel.deq = 1
    /\ atCancel.due = 1
    /\ written = <<1, 2>>
    /\ sup.pc = "done"

\* the action of the last step of the pipeline was invoked, or the pipeline
\* has no step
LastStepStarted == Len(invoked) = pSteps

C36_WitnessNoSteps ==
    /\ spc = "done"
    /\ pSteps = 0
    /\ ctxErr # Nil
    /\ sout = NewEmptyResult("")

\* C37: when the supplier closes the channel without having written any
\* sub-pipeline, the pool step still returns: all its workers have exited,
\* the table is empty, a non-nil result handler was called once, with an
\* empty map, and the step returns what the handler returned (an empty
\* Result without handler) merged with the state of the context: the
\* handler's error when the context is not canceled, and a canceled Result
\* whose error wraps the context's error when it is.
C37_EmptySupplyCallsHandlerWithEmptyMap ==
    (mode = "pool" /\ pc \in {"returned", "reported"} /\ written = <<>>) =>
        /\ closed
        /\ BagCardinality(tasks) = size
        /\ \A t \in BagToSet(tasks) : t.pc = "exited"
        /\ wg = 0
        /\ m = EmptyMap
        /\ handlerArg = IF handler # "nil" THEN <<EmptyMap>> ELSE <<>>
        /\ collected = IF handler # "nil" THEN CallHandler(handler, EmptyMap) ELSE EmptyResult
        /\ outcome.name = StepFName
        /\ outcome.canceled <=> ctxErr # Nil
        /\ IF ctxErr = Nil
           THEN outcome.err = collected.err
           ELSE IsFailed(outcome) /\ ctxErr.is \subseteq outcome.err.is

\* a pool of two workers whose supplier was given an empty slice: the
\* handler was called with the empty map, returned an error, and the step
\* returned it
C37_Witness ==
    /\ mode = "pool"
    /\ size = 2
    /\ pipelines = 0
    /\ pc = "returned"
    /\ handler = "always"
    /\ handlerArg = <<EmptyMap>>
    /\ ctxErr = Nil
    /\ outcome.err = ErrCollect

\* what RunWithContext of the sub-pipeline at slice position p returned
OutcomeOf(p) == CHOOSE r \in {x[2] : x \in {y \in ran : y[1] = p}} : TRUE

\* the map from the index of each sub-pipeline of the supply to its outcome
SupplyOutcomes == [k \in 0..(pipelines - 1) |-> OutcomeOf(k + 1)]

\* C38: without cancellation the map NewFanOutStep passes to the result
\* handler is a function of the supply alone: it maps the index k of each
\* sub-pipeline of the slice to what that sub-pipeline returned, whatever
\* the order in which the goroutines ran, stored and finished.  So two runs
\* on the same supply, with sub-pipelines whose outcomes do not depend on
\* the scheduling, give equal maps.
C38_FanOutMapIsFunctionOfSupply ==
    (mode = "fanout" /\ HandlerStarted /\ ctxErr = Nil) =>
        /\ \A p \in 1..pipelines : Cardinality({y \in ran : y[1] = p}) = 1
        /\ {y[1] : y \in ran} = 1..pipelines
        /\ RangeToMap(m) = SupplyOutcomes
        /\ handler # "nil" => handlerArg = <<SupplyOutcomes>>

\* a fan-out over two sub-pipelines, of which the second finished first and
\* failed: the handler got the map of their indices to their outcomes
C38_Witness ==
    /\ mode = "fanout"
    /\ HandlerStarted
    /\ ctxErr = Nil
    /\ handler # "nil"
    /\ pipelines = 2
    /\ stores = {<<0, 1>>, <<1, 2>>}
    /\ handlerArg = <<SupplyOutcomes>>
    /\ IsFailed(handlerArg[1][1])
    /\ ~IsFailed(handlerArg[1][0])

\* the calls of step.F that have started
Called == {inv \in Invocations : frames[inv].pc # "idle"}

\* the addresses of the channel, the table, the wait group and the counter
\* of call inv
LocalsOf(inv) == {frames[inv].chan, frames[inv].m, frames[inv].wg, frames[inv].count}

\* the table of call inv
TableOf(inv) == heap[frames[inv].m].tbl

\* C39: each call of the action of a concurrent Step makes its own channel,
\* result table, index counter and wait group: the four objects of a call
\* are four different objects and none of them is an object of another
\* call of the same Step, whether the calls follow each other or run at the
\* same time.  So the calls never share records: the channel, the
\* goroutines and the table of a call hold sub-pipelines of that call's
\* supplier only, the indices of a call start at 0 and go up by one, and a
\* call returns the records of all the sub-pipelines of its own supply,
\* under the indices 0 .. len - 1.
C39_InvocationsShareNothing ==
    /\ \A inv \in Called : Cardinality(LocalsOf(inv)) = 4
    /\ \A inv \in Called : \A other \in Called \ {inv} :
          LocalsOf(inv) \cap LocalsOf(other) = {}
    /\ \A inv \in Called :
          /\ \A j \in DOMAIN heap[frames[inv].chan].buf :
                heap[frames[inv].chan].buf[j][1] = inv
          /\ \A t \in frames[inv].pending : t[2][1] = inv
          /\ \A n \in DOMAIN TableOf(inv) : TableOf(inv)[n][1] = inv
          /\ DOMAIN TableOf(inv) \cup {t[1] : t \in frames[inv].pending}
                = 0..(heap[frames[inv].count].val - 1)
          /\ heap[frames[inv].count].val <= pipelines
          /\ frames[inv].pc = "returned" =>
                /\ DOMAIN frames[inv].out = 0..(pipelines - 1)
                /\ Range(frames[inv].out) = {<<inv, j>> : j \in 1..pipelines}

\* two calls run at the same time; each has stored the record of the first
\* sub-pipeline of its own supply under index 0 of its own table
C39_Witness ==
    /\ frames[1].pc = "running"
    /\ frames[2].pc = "running"
    /\ 0 \in DOMAIN TableOf(1) /\ TableOf(1)[0] = <<1, 1>>
    /\ 0 \in DOMAIN TableOf(2) /\ TableOf(2)[0] = <<2, 1>>
    /\ frames[1].m # frames[2].m

\* the steps of the goroutines of the program: the caller, the supplier,
\* the workers and the tasks
Scheduled ==
    \/ Construct
    \/ Invoke
    \/ SupplierSelect
    \/ SupplierSend
    \/ SupplierClose
    \/ FanOutReceive
    \/ FanOutRangeEnd
    \/ PoolSpawn
    \/ PoolSpawnEnd
    \/ \E t \in BagToSet(tasks) : TaskSelect(t)
    \/ \E t \in BagToSet(tasks) : TaskExec(t)
    \/ \E t \in BagToSet(tasks) : TaskStore(t)
    \/ \E t \in BagToSet(tasks) : TaskDone(t)
    \/ \E t \in BagToSet(tasks) : WorkerReceive(t)
    \/ \E t \in BagToSet(tasks) : WorkerClaim(t)
    \/ \E t \in BagToSet(tasks) : WorkerExit(t)
    \/ Wait
    \/ Collect
    \/ Return
    \/ ParentDoRun

\* the goroutines' steps and the cancellation of the context by its owner
Next ==
    \/ Cancel
    \/ Scheduled

Spec == Init /\ [][Next]_vars

\* the same program, observed with the history of the moment of cancellation
InitTrack == InitWith({TRUE}, {TRUE})

SpecTrack == InitTrack /\ [][Next]_vars

\* the program with either SupplierFromSlice or a supplier that returns
\* without closing the channel
InitNoClose == InitWith(BOOLEAN, {FALSE})

SpecNoClose == InitNoClose /\ [][Next]_vars

\* a pipeline is run on its own by RunWithContext, no concurrent step is
\* constructed
InitSeq ==
    /\ InitPipeline(PipelineConfigs)
    /\ InitStep({TRUE}, {FALSE})
    /\ mode = "fanout"
    /\ pipelines = 0

NextSeq ==
    \/ SeqCancel
    \/ SeqRun
    \/ SeqSelect
    \/ SeqHook
    \/ SeqCallAction
    \/ SeqActionReturns
    \/ SeqHandle
    \/ SeqFinalize

SpecSeq == InitSeq /\ [][NextSeq]_vars

\* a DependencyRecorder is used on its own: no pipeline is run
InitRecorder ==
    /\ InitPipeline({<<0, 0, FALSE, "none">>})
    /\ InitStep({TRUE}, {FALSE})
    /\ mode = "fanout"
    /\ pipelines = 0

NextRecorder ==
    \/ Record
    \/ Require

SpecRecorder == InitRecorder /\ [][NextRecorder]_vars

\* a Step was constructed, by NewFanOutStep or by NewWorkerPoolStep with a
\* size of 1 or more, and its action is called twice
InitTwice ==
    /\ InitPipeline({<<0, 0, FALSE, "none">>})
    /\ InitStep({TRUE}, {FALSE})
    /\ mode = "pool" => size >= 1

NextTwice ==
    \E inv \in Invocations :
        \/ InvokeStep(inv)
        \/ SupplierStep(inv)
        \/ SupplierWrite(inv)
        \/ \E src \in Invocations : LoopReceive(inv, src)
        \/ LoopEnd(inv)
        \/ WorkerTake(inv)
        \/ StoreRecord(inv)
        \/ WorkerLeave(inv)
        \/ ReturnStep(inv)

SpecTwice == InitTwice /\ [][NextTwice]_vars

\* The Go scheduler lets a goroutine that can take a step take one in the
\* end; nothing obliges the owner of the context to cancel it.
SpecFair == Spec /\ WF_vars(Scheduled)
====
